---- MODULE Spec2Model ----
(***************************************************************************)
(* Model of the chunked upload engine of src/main.py: upload_file_part     *)
(* (lines 72-107) and upload_large_file (lines 109-173), and of its        *)
(* caller send_media (lines 175-208).                                      *)
(*                                                                         *)
(* The program runs on one asyncio event loop, so every action below is    *)
(* the code a coroutine executes between two suspension points (await of   *)
(* bot.send, asyncio.sleep, reply_text, send_media_group, or a wait on the *)
(* semaphore).  The chunk tasks created by asyncio.gather are not          *)
(* cancelled when one of them raises; they keep running after              *)
(* upload_large_file has returned.                                         *)
(*                                                                         *)
(* The transport (bot.send) is the environment: each call returns, raises  *)
(* a generic error, or raises a rate-limit error.  The two calls of the    *)
(* main coroutine (reply_text, send_media_group) are taken to return.      *)
(***************************************************************************)
EXTENDS Integers, FiniteSets, Sequences, TLC

\* ---------------------------------------------------------------- constants
MAX_PREMIUM_PARTS == 4000
MAX_REGULAR_PARTS == 2000
PART_SIZE == 524288
BIG_FILE_THRESHOLD == 10 * 1024 * 1024
\* asyncio.Semaphore(4)
SEMAPHORE_SLOTS == 4
\* for attempt in range(3)
ATTEMPTS == 3
\* is_premium = False
is_premium == FALSE

\* ------------------------------------------------------------------- bounds
\* Files of 1..MaxParts parts with a one-byte last part are uploaded, besides
\* the empty file, files of one and of two full parts, and a file of one part
\* more than the Regular limit.
MaxParts == 5
\* file_id = random.getrandbits(64) is drawn from 0..MaxFileId.
MaxFileId == 1
\* At most MaxFailures calls of bot.send of a run raise; after that only
\* calls that return are explored.
MaxFailures == 3
\* The chunk tasks of a run are followed through MaxRefusals steps that the
\* program itself makes fail (a check of upload_file_part that refuses the
\* part, an open() of the removed file).  12 refusals take the first 4 tasks
\* of an over-limit plan to the end of their attempts, 16 take the next 4
\* tasks through their first attempt as well.
MaxRefusals == 16

None == "None"

\* No chunk read yet.
NoData == [off |-> -1, len |-> -1]

\* The InputFile dict before it is built.
NoInputFile == [tag |-> None, id |-> 0, parts |-> 0, md5_checksum |-> None]

\* The files upload_large_file is called with.  The function takes a file of
\* any size, the empty file included: line 111 reads the size and nothing
\* tests it.  (Its caller send_media passes it files of more than 50 MiB.)
FileSizes ==
    {0}
    \cup {PART_SIZE, 2 * PART_SIZE}
    \cup {(n - 1) * PART_SIZE + 1 : n \in 1..MaxParts}
    \cup {MAX_REGULAR_PARTS * PART_SIZE + 1}

\* send_media is not running: upload_large_file is called on its own.
NoSendMedia ==
    [pc |-> "none", kib |-> 0, is_audio |-> FALSE, call |-> None,
     reply |-> None, ret |-> None]

\* The two sizes at the big-file threshold: 20 full parts, and one byte more.
BigFileSizes == {BIG_FILE_THRESHOLD, BIG_FILE_THRESHOLD + 1}

FileIds == 0..MaxFileId

\* What one call of bot.send does: it returns, or raises with this message.
TransportResults == {"ok", "Timed out", "FLOOD_PREMIUM_WAIT_30"}

\* ------------------------------------------------------------ pure functions
Min(a, b) == IF a < b THEN a ELSE b

Max(a, b) == IF a > b THEN a ELSE b

Pow2(n) == IF n = 0 THEN 1 ELSE IF n = 1 THEN 2 ELSE IF n = 2 THEN 4 ELSE 8

\* total_parts = (file_size + PART_SIZE - 1) // PART_SIZE
TotalParts(size) == (size + PART_SIZE - 1) \div PART_SIZE

\* Mutant of ReadChunk: the read does not stop at the end of the file.
ReadChunkNoEof(size, part_index) ==
    [off |-> part_index * PART_SIZE, len |-> PART_SIZE]

\* f.seek(part_index * PART_SIZE); data = f.read(PART_SIZE): the bytes of the
\* file from the offset to the offset + PART_SIZE or the end of the file.  A
\* byte string is identified by the range of the file it was read from.
ReadChunk(size, part_index) ==
    [off |-> part_index * PART_SIZE,
     len |-> Min(PART_SIZE, Max(0, size - part_index * PART_SIZE))]

\* The part limit of the account tier.
PartLimit(premium) == IF premium THEN MAX_PREMIUM_PARTS ELSE MAX_REGULAR_PARTS

\* Mutant of Precheck: the part limit is not checked.
PrecheckNoLimit(part_index, len, parts, premium) ==
    IF len > PART_SIZE /\ part_index # parts - 1
    THEN "Tamanho da parte excedeu 512KB"
    ELSE IF len = 0
    THEN "Parte do arquivo vazia"
    ELSE ""

\* The three checks at the top of upload_file_part: the message of the
\* UploadError raised, or "" when all three pass.
Precheck(part_index, len, parts, premium) ==
    IF parts > PartLimit(premium)
    THEN "Limite de partes excedido para o tipo de conta"
    ELSE IF len > PART_SIZE /\ part_index # parts - 1
    THEN "Tamanho da parte excedeu 512KB"
    ELSE IF len = 0
    THEN "Parte do arquivo vazia"
    ELSE ""

\* Mutant of NeedsSend: the part of a one-part plan is sent as well.
NeedsSendAlways(parts) == parts >= 1

\* if total_parts > 1: await bot.send(...)
NeedsSend(parts) == parts > 1

\* Mutant of Method: a plan of exactly BIG_FILE_THRESHOLD bytes of parts is
\* sent with the big-file method.
MethodAtThreshold(parts) ==
    IF parts * PART_SIZE >= BIG_FILE_THRESHOLD
    THEN "upload.saveBigFilePart"
    ELSE "upload.saveFilePart"

\* The wire method of a part.
Method(parts) ==
    IF parts * PART_SIZE > BIG_FILE_THRESHOLD
    THEN "upload.saveBigFilePart"
    ELSE "upload.saveFilePart"

\* The request bot.send is called with.
Request(fid, part_index, chunk, parts) ==
    [method |-> Method(parts),
     file_id |-> fid,
     file_part |-> part_index,
     file_total_parts |-> parts,
     bytes |-> chunk]

\* str(e).lower() of the messages the model raises.
Lower(msg) ==
    CASE msg = "FLOOD_PREMIUM_WAIT_30" -> "flood_premium_wait_30"
      [] msg = "Timed out" -> "timed out"
      [] msg = "Limite de partes excedido para o tipo de conta"
            -> "limite de partes excedido para o tipo de conta"
      [] msg = "Tamanho da parte excedeu 512KB" -> "tamanho da parte excedeu 512kb"
      [] msg = "Parte do arquivo vazia" -> "parte do arquivo vazia"
      [] OTHER -> msg

\* Mutant of IsFlood: the rate-limit marker is never recognised.
IsFloodNever(msg) == FALSE

\* "flood_premium_wait" in error_msg
IsFlood(msg) == Lower(msg) \in {"flood_premium_wait_30"}

RATE_LIMIT_MSG == "Limite de upload atingido para conta regular"

\* f"Falha no upload da parte {part_index}"
EXHAUSTED_MSG(part_index) == "Falha no upload da parte " \o ToString(part_index)

\* Mutant of Backoff: a linear delay.
BackoffLinear(attempt) == attempt + 1

\* await asyncio.sleep(2 ** attempt)
Backoff(attempt) == Pow2(attempt)


\* -------------------------------------------------------------------- state
VARIABLES
    file_size,      \* os.path.getsize(file_path), local of upload_large_file
    file_exists,    \* whether file_path is on disk
    pc,             \* where upload_large_file is: start, gather, replying,
                    \* sending_media, done
    total_parts,    \* local of upload_large_file
    file_id,        \* local of upload_large_file
    use_big_file,   \* local of upload_large_file
    md5_checksum,   \* local of upload_large_file: None or the digest
    sem,            \* semaphore._value
    granted,        \* the waiters of semaphore._waiters whose future release()
                    \* has set: the first `granted` tasks of queue
    queue,          \* the tasks that have not entered the semaphore, in the
                    \* order they run and queue in semaphore._waiters
    tasks,          \* the upload_part(i) tasks that have entered the
                    \* semaphore; a task of queue is a NewTask
    gather_exc,     \* the exception asyncio.gather raises: the first one raised
    input_file,     \* the InputFile dict, NoInputFile until built
    media_sent,     \* calls of context.bot.send_media_group
    reply,          \* str(e) in the text "Erro no upload: {str(e)}" sent with
                    \* update.message.reply_text
    ret,            \* what upload_large_file returned ("True", "False"), None
                    \* until it returns
    failures,       \* calls of bot.send that raised so far in this run
    refusals,       \* steps of the chunk tasks the program made fail so far
    sm              \* the call of send_media: where it is (pc), the size of
                    \* the file in KiB (kib), is_audio, the text it replied
                    \* with and what it returned; NoSendMedia when
                    \* upload_large_file is called on its own

vars == <<file_size, file_exists, pc, total_parts, file_id, use_big_file,
          md5_checksum, sem, granted, queue, tasks, gather_exc, input_file,
          media_sent, reply, ret, failures, refusals, sm>>

main_vars == <<pc, total_parts, file_id, use_big_file, md5_checksum,
               input_file, media_sent, reply, ret>>

\* A task that has not entered the semaphore (it is created by gather, or
\* queued on the semaphore).  st: waiting, sending (bot.send outstanding), sleeping
\* (asyncio.sleep), done (returned), raised (UploadError left upload_part),
\* nofile (open() raised FileNotFoundError).
NewTask ==
    [st |-> "waiting",
     attempt |-> 0,     \* the loop variable of `for attempt in range(3)`
     data |-> NoData,     \* the chunk read from the file
     calls |-> 0,       \* calls of upload_file_part
     req |-> {},        \* the requests bot.send was called with
     delay |-> 0,       \* the argument of the asyncio.sleep under way or last taken
     slept |-> 0,       \* calls of asyncio.sleep
     ack |-> FALSE,     \* upload_file_part returned True
     last |-> "",       \* what the last bot.send call of the part did
     log |-> "",        \* the last error upload_file_part logged for the part
     exc |-> ""]        \* the message of the exception that ended the task

Parts == DOMAIN tasks

\* Tasks inside `async with semaphore`.
Holding == {i \in Parts : tasks[i].st \in {"sending", "sleeping"}}

\* Tasks with a bot.send call outstanding.
Outstanding == {i \in Parts : tasks[i].st = "sending"}

Acked == {i \in Parts : tasks[i].ack}

\* Mutant of AllReturned: the wait ends with the first task that returns.
FirstReturned == \E i \in Parts : tasks[i].st = "done"

\* asyncio.gather returns when every task has returned.
AllReturned == queue = <<>> /\ \A i \in Parts : tasks[i].st = "done"

\* upload_large_file is called with a file of one of the sizes, and f calls
\* of bot.send that raise are taken as already spent.
InitUpload(sizes, f) ==
    /\ file_size \in sizes
    /\ file_exists = TRUE
    /\ pc = "start"
    /\ total_parts = 0
    /\ file_id = 0
    /\ use_big_file = FALSE
    /\ md5_checksum = None
    /\ sem = SEMAPHORE_SLOTS
    /\ granted = 0
    /\ queue = <<>>
    /\ tasks = <<>>
    /\ gather_exc = None
    /\ input_file = NoInputFile
    /\ media_sent = 0
    /\ reply = None
    /\ ret = None
    /\ failures = f
    /\ refusals = 0
    /\ sm = NoSendMedia

Init == InitUpload(FileSizes, 0)

\* The files of Init, and the files at the big-file threshold uploaded with
\* every attempt acknowledged.
InitBig == Init \/ InitUpload(BigFileSizes, MaxFailures)

\* ---------------------------------------------------------- upload_large_file
\* Lines 111-145: the locals, the semaphore and the tasks handed to gather.
Begin ==
    /\ pc = "start"
    /\ pc' = "gather"
    /\ total_parts' = TotalParts(file_size)
    /\ file_id' \in FileIds
    /\ use_big_file' = (file_size > BIG_FILE_THRESHOLD)
    /\ md5_checksum' = IF file_size > BIG_FILE_THRESHOLD THEN None ELSE "md5"
    /\ sem' = SEMAPHORE_SLOTS
    /\ granted' = 0
    /\ queue' = [k \in 1..TotalParts(file_size) |-> k - 1]
    /\ tasks' = <<>>
    /\ UNCHANGED <<file_size, file_exists, gather_exc, input_file, media_sent,
                   reply, ret, failures, refusals, sm>>

\* ------------------------------------------------------------------ upload_part
\* Mutant of Locked: an off-by-one in the slot test.
LockedOffByOne(value) == value < 0

\* semaphore.locked(): no slot is free.
Locked(value) == value <= 0

\* The semaphore wakes its waiters in the order they queued, which is the
\* order gather created the tasks in: the task that enters next.
NextWaiter(q) == Head(q)

\* Mutant of Released: a task that ends with an exception keeps its slot.
ReleasedOnlyAcked(t) == IF t.st = "done" THEN 1 ELSE 0

\* The slot a task gives back when it leaves `async with semaphore`.
Released(t) == IF t.st \in {"done", "raised", "nofile"} THEN 1 ELSE 0

\* Mutant of FirstException: the exception of a task does not reach gather.
FirstExceptionLost(t) == gather_exc

\* The exception gather raises is the first one a task raised.
FirstException(t) ==
    IF gather_exc = None /\ t.st = "raised" THEN t.exc ELSE gather_exc

\* The waiters of semaphore._waiters whose future is not set yet.  Every task
\* runs up to acquire() as soon as gather has created it; it queues in
\* _waiters if it finds the semaphore locked.
Waiting(value, g, q) == IF value > 0 THEN 0 ELSE Len(q) - g

\* release(): _value += 1, and _wake_up_next() takes the slot back for the
\* first waiter whose future is not set (_value -= 1, fut.set_result(True)).
\* rel is 1 when the task leaves `async with semaphore` and 0 when it stays.
Release(value, g, q, rel) ==
    IF rel = 0
    THEN [value |-> value, granted |-> g]
    ELSE IF Waiting(value, g, q) > 0
    THEN [value |-> value, granted |-> g + 1]
    ELSE [value |-> value + 1, granted |-> g]

\* Whether the program itself made the step of the task fail: a check of
\* upload_file_part refused the part (the task sleeps), or open() raised.
Refused(old, new) == new.slept > old.slept \/ new.st = "nofile"

\* One call of upload_file_part up to its first suspension: a failed check is
\* caught and logged and False is returned, so the task sleeps; with
\* total_parts > 1 bot.send is called; else True is returned and the task ends.
CallPart(t, i) ==
    LET err == Precheck(i, t.data.len, total_parts, is_premium)
        c == [t EXCEPT !.calls = @ + 1]
    IN  IF err # ""
        THEN [c EXCEPT !.st = "sleeping", !.log = err,
                       !.delay = Backoff(t.attempt), !.slept = @ + 1]
        ELSE IF NeedsSend(total_parts)
        THEN [c EXCEPT !.st = "sending",
                       !.req = @ \cup {Request(file_id, i, t.data, total_parts)}]
        ELSE [c EXCEPT !.st = "done", !.ack = TRUE]

\* The task enters `async with semaphore`, reads its chunk and makes its
\* first attempt.  With the file gone open() raises FileNotFoundError.
Enter(t, i) ==
    IF ~file_exists
    THEN [t EXCEPT !.st = "nofile", !.exc = "FileNotFoundError"]
    ELSE CallPart([t EXCEPT !.data = ReadChunk(file_size, i)], i)

\* bot.send returned or raised: lines 101-107 and 139-141.
AfterSend(t, r) ==
    IF r = "ok"
    THEN [t EXCEPT !.st = "done", !.ack = TRUE, !.last = r]
    ELSE IF IsFlood(r)
    THEN [t EXCEPT !.st = "raised", !.exc = RATE_LIMIT_MSG, !.last = r]
    ELSE [t EXCEPT !.st = "sleeping", !.log = r, !.last = r,
                   !.delay = Backoff(t.attempt), !.slept = @ + 1]

\* Mutant of AfterSleep: the loop ends without the raise.
AfterSleepNoRaise(t, i) ==
    IF t.attempt + 1 < ATTEMPTS
    THEN CallPart([t EXCEPT !.attempt = @ + 1], i)
    ELSE [t EXCEPT !.st = "done"]

\* Mutant of AfterSleep: a retry reads its bytes again, on from where the
\* last read of the chunk stopped.
AfterSleepReread(t, i) ==
    IF t.attempt + 1 < ATTEMPTS
    THEN CallPart([t EXCEPT !.attempt = @ + 1,
                            !.data = ReadChunk(file_size, i + t.attempt + 1)], i)
    ELSE [t EXCEPT !.st = "raised", !.exc = EXHAUSTED_MSG(i)]

\* asyncio.sleep is over: the next iteration of the loop, or the end of it.
AfterSleep(t, i) ==
    IF t.attempt + 1 < ATTEMPTS
    THEN CallPart([t EXCEPT !.attempt = @ + 1], i)
    ELSE [t EXCEPT !.st = "raised", !.exc = EXHAUSTED_MSG(i)]

\* The step of task i that leaves it as new.  failed: a call of bot.send
\* raised; refused: the program made the step fail.
Step(i, new, failed, refused) ==
    /\ failed => failures < MaxFailures
    /\ refused => refusals < MaxRefusals
    /\ failures' = IF failed THEN failures + 1 ELSE failures
    /\ refusals' = IF refused THEN refusals + 1 ELSE refusals
    /\ tasks' = (i :> new) @@ tasks
    /\ gather_exc' = FirstException(new)
    /\ UNCHANGED <<file_size, file_exists, main_vars, sm>>

\* The first task of the queue passes acquire(): its future was set by a
\* release(), or it is the first to run and the semaphore is not locked
\* (_value -= 1).  It runs to its first suspension, or to its end.
Admit ==
    /\ queue # <<>>
    /\ granted > 0 \/ ~Locked(sem)
    /\ LET i == NextWaiter(queue)
           new == Enter(NewTask, i)
           value == IF granted > 0 THEN sem ELSE sem - 1
           g == IF granted > 0 THEN granted - 1 ELSE 0
           s == Release(value, g, Tail(queue), Released(new))
       IN  /\ Step(i, new, FALSE, Refused(NewTask, new))
           /\ sem' = s.value
           /\ granted' = s.granted
           /\ queue' = Tail(queue)

SendReturns(i, r) ==
    /\ tasks[i].st = "sending"
    /\ LET new == AfterSend(tasks[i], r)
           s == Release(sem, granted, queue, Released(new))
       IN  /\ Step(i, new, r # "ok", FALSE)
           /\ sem' = s.value
           /\ granted' = s.granted
           /\ UNCHANGED queue

Wake(i) ==
    /\ tasks[i].st = "sleeping"
    /\ LET new == AfterSleep(tasks[i], i)
           s == Release(sem, granted, queue, Released(new))
       IN  /\ Step(i, new, FALSE, Refused(tasks[i], new))
           /\ sem' = s.value
           /\ granted' = s.granted
           /\ UNCHANGED queue

\* ------------------------------------------------- upload_large_file, the rest
\* Lines 167-169: gather raised UploadError; the error reply is sent.
GatherRaises ==
    /\ pc = "gather"
    /\ gather_exc # None
    /\ pc' = "replying"
    /\ reply' = gather_exc
    /\ UNCHANGED <<file_size, file_exists, total_parts, file_id, use_big_file,
                   md5_checksum, sem, granted, queue, tasks, gather_exc,
                   input_file, media_sent, ret, failures, refusals, sm>>

\* Lines 170-173: return False, and the finally clause removes the file.
ReplyReturns ==
    /\ pc = "replying"
    /\ pc' = "done"
    /\ ret' = "False"
    /\ file_exists' = FALSE
    /\ UNCHANGED <<file_size, total_parts, file_id, use_big_file,
                   md5_checksum, sem, granted, queue, tasks, gather_exc,
                   input_file, media_sent, reply, failures, refusals, sm>>

\* The InputFile dict of lines 148-155.
BuildInputFile ==
    IF use_big_file
    THEN [tag |-> "InputFileBig", id |-> file_id, parts |-> total_parts,
          md5_checksum |-> None]
    ELSE [tag |-> "InputFile", id |-> file_id, parts |-> total_parts,
          md5_checksum |-> md5_checksum]

\* Lines 145-164: gather returned; the reference is built and the media sent.
GatherReturns ==
    /\ pc = "gather"
    /\ gather_exc = None
    /\ AllReturned
    /\ pc' = "sending_media"
    /\ input_file' = BuildInputFile
    /\ media_sent' = media_sent + 1
    /\ UNCHANGED <<file_size, file_exists, total_parts, file_id, use_big_file,
                   md5_checksum, sem, granted, queue, tasks, gather_exc, reply,
                   ret, failures, refusals, sm>>

\* Lines 165 and 171-173: return True, and the finally clause removes the file.
MediaReturns ==
    /\ pc = "sending_media"
    /\ pc' = "done"
    /\ ret' = "True"
    /\ file_exists' = FALSE
    /\ UNCHANGED <<file_size, total_parts, file_id, use_big_file,
                   md5_checksum, sem, granted, queue, tasks, gather_exc,
                   input_file, media_sent, reply, failures, refusals, sm>>

Next ==
    \/ Begin
    \/ Admit
    \/ \E i \in Holding, r \in TransportResults : SendReturns(i, r)
    \/ \E i \in Holding : Wake(i)
    \/ GatherRaises
    \/ ReplyReturns
    \/ GatherReturns
    \/ MediaReturns

Spec == Init /\ [][Next]_vars

\* Every awaited call (bot.send, asyncio.sleep, reply_text, send_media_group)
\* returns and the event loop runs every coroutine that is ready: a step that
\* can be taken is taken.
LiveSpec == Init /\ [][Next]_vars /\ WF_vars(Next)

\* The uploads of Spec and the uploads of the files at the big-file threshold.
SpecBig == InitBig /\ [][Next]_vars

\* The event loop runs a coroutine whose awaited future has a result: the
\* main coroutine takes its steps.
FairSpec ==
    /\ Spec
    /\ WF_vars(GatherRaises)
    /\ WF_vars(ReplyReturns)
    /\ WF_vars(GatherReturns)
    /\ WF_vars(MediaReturns)

\* ------------------------------------------------------------------ send_media
\* send_media compares the size of the file with MAX_FILE_SIZE, 2 GiB unless
\* the environment sets it, and with 50 MiB.  2 GiB is one more than the
\* largest integer of the model checker, so the sizes of send_media are in
\* KiB: the files it is given here are whole KiB and both limits are
\* multiples of 1024, and size > limit is kib > limit / 1024.
MAX_FILE_SIZE_KIB == 2 * 1024 * 1024

\* if file_size > 50 * 1024 * 1024
CHUNKED_OVER_KIB == 50 * 1024

\* The files send_media is given: the empty file, 1 KiB and 50 MiB (sent
\* directly), one part more than the Regular limit (uploaded in chunks),
\* 2 GiB + 1 KiB (refused).
SendKib ==
    {0, 1, CHUNKED_OVER_KIB, (MAX_REGULAR_PARTS + 1) * (PART_SIZE \div 1024),
     MAX_FILE_SIZE_KIB + 1}

\* What send_audio or send_video does: it returns, or raises with this message.
DirectResults == {"ok", "Timed out"}

\* The text of line 180, in ASCII.
TOO_BIG_MSG == "Arquivo excede o tamanho maximo permitido"

\* send_media is called with a file on disk; upload_large_file is not running.
InitSend ==
    /\ sm \in {[pc |-> "start", kib |-> k, is_audio |-> a, call |-> None,
                reply |-> None, ret |-> None] :
                  k \in SendKib, a \in BOOLEAN}
    /\ file_size = 0
    /\ file_exists = TRUE
    /\ pc = "idle"
    /\ total_parts = 0
    /\ file_id = 0
    /\ use_big_file = FALSE
    /\ md5_checksum = None
    /\ sem = SEMAPHORE_SLOTS
    /\ granted = 0
    /\ queue = <<>>
    /\ tasks = <<>>
    /\ gather_exc = None
    /\ input_file = NoInputFile
    /\ media_sent = 0
    /\ reply = None
    /\ ret = None
    /\ failures = 0
    /\ refusals = 0

upload_vars == <<file_size, pc, total_parts, file_id, use_big_file,
                 md5_checksum, sem, granted, queue, tasks, gather_exc,
                 input_file, media_sent, reply, ret, failures, refusals>>

\* Lines 179-180: the file is over MAX_FILE_SIZE; the refusal is sent.
SmReject ==
    /\ sm.pc = "start"
    /\ sm.kib > MAX_FILE_SIZE_KIB
    /\ sm' = [sm EXCEPT !.pc = "rejecting", !.reply = TOO_BIG_MSG]
    /\ UNCHANGED <<file_exists, upload_vars>>

\* Line 181: return False, before the try statement: no finally clause runs.
SmRejectReturns ==
    /\ sm.pc = "rejecting"
    /\ sm' = [sm EXCEPT !.pc = "done", !.ret = "False"]
    /\ UNCHANGED <<file_exists, upload_vars>>

\* Lines 184-185: a file over 50 MiB goes to upload_large_file.
SmCallUpload ==
    /\ sm.pc = "start"
    /\ sm.kib <= MAX_FILE_SIZE_KIB
    /\ sm.kib > CHUNKED_OVER_KIB
    /\ sm' = [sm EXCEPT !.pc = "uploading", !.call = "upload_large_file"]
    /\ pc' = "start"
    /\ file_size' = sm.kib * 1024
    /\ UNCHANGED <<file_exists, total_parts, file_id, use_big_file,
                   md5_checksum, sem, granted, queue, tasks, gather_exc,
                   input_file, media_sent, reply, ret, failures, refusals>>

\* Lines 185 and 206-208: upload_large_file returned; its value is returned
\* and the finally clause removes the file if it is still there.
SmUploadReturns ==
    /\ sm.pc = "uploading"
    /\ pc = "done"
    /\ sm' = [sm EXCEPT !.pc = "done", !.ret = ret]
    /\ file_exists' = FALSE
    /\ UNCHANGED upload_vars

\* Lines 187-200: the file is opened and send_audio or send_video is called.
SmSendDirect ==
    /\ sm.pc = "start"
    /\ sm.kib <= MAX_FILE_SIZE_KIB
    /\ sm.kib <= CHUNKED_OVER_KIB
    /\ sm' = [sm EXCEPT !.pc = "sending",
                        !.call = IF sm.is_audio THEN "send_audio" ELSE "send_video"]
    /\ UNCHANGED <<file_exists, upload_vars>>

\* Lines 201-208: the call returned (return True, and the finally clause
\* removes the file) or raised (the error reply is sent).
SmDirectReturns(r) ==
    /\ sm.pc = "sending"
    /\ IF r = "ok"
       THEN /\ sm' = [sm EXCEPT !.pc = "done", !.ret = "True"]
            /\ file_exists' = FALSE
       ELSE /\ sm' = [sm EXCEPT !.pc = "replying", !.reply = r]
            /\ UNCHANGED file_exists
    /\ UNCHANGED upload_vars

\* Lines 205-208: return False, and the finally clause removes the file.
SmReplyReturns ==
    /\ sm.pc = "replying"
    /\ sm' = [sm EXCEPT !.pc = "done", !.ret = "False"]
    /\ file_exists' = FALSE
    /\ UNCHANGED upload_vars

SendNext ==
    \/ Next
    \/ SmReject
    \/ SmRejectReturns
    \/ SmCallUpload
    \/ SmUploadReturns
    \/ SmSendDirect
    \/ \E r \in DirectResults : SmDirectReturns(r)
    \/ SmReplyReturns

\* The program entered at send_media, besides the uploads of Spec.
SendInit == Init \/ InitSend

SendSpec == SendInit /\ [][SendNext]_vars

\* ------------------------------------------------------------------- claims
\* The chunk indices of the plan.
Indices == 0..(total_parts - 1)

\* A part whose attempts are used up: upload_file_part was called 3 times and
\* none of the calls returned True.
Exhausted(i) ==
    /\ tasks[i].calls = 3
    /\ ~tasks[i].ack
    /\ tasks[i].st # "sending"

\* C1: at most 4 part-upload network calls (bot.send) are outstanding at the
\* same time, in every state of every upload.
C1_AtMostFourOutstanding == Cardinality(Outstanding) <= 4

\* C1 witness: 4 calls are outstanding while a further chunk is pending.
C1_Witness == Cardinality(Outstanding) = 4 /\ queue # <<>>

\* C2: the file reference is built and the media message sent at most once,
\* and only when every chunk index 0..total_parts-1 has been acknowledged.
C2_BuiltOnceAfterAllAcked ==
    /\ media_sent <= 1
    /\ (media_sent = 1) = (input_file # NoInputFile)
    /\ input_file # NoInputFile =>
          \A i \in Indices : i \in Parts /\ tasks[i].ack /\ tasks[i].calls >= 1

\* C2 witness: the reference of a 5-part file is built, one of whose chunks
\* was acknowledged on a retry, that is after chunks admitted later than it.
C2_Witness ==
    /\ input_file # NoInputFile
    /\ media_sent = 1
    /\ total_parts = 5
    /\ tasks[0].calls = 3

\* C3: once a chunk index has used its 3 attempts without acknowledgment, no
\* file reference is built, no media message is sent and upload_large_file
\* returns False, whatever the other indices do.
C3_ExhaustedFailsAsUnit ==
    (\E i \in Parts : Exhausted(i)) =>
        /\ input_file = NoInputFile
        /\ media_sent = 0
        /\ ret # "True"
        /\ pc \in {"gather", "replying", "done"}
        /\ pc = "done" => ret = "False"

\* C3 witness: the upload has returned False with one index exhausted and
\* every other index acknowledged.
C3_Witness ==
    /\ pc = "done"
    /\ ret = "False"
    /\ total_parts = 5
    /\ \E i \in Parts :
          /\ Exhausted(i)
          /\ tasks[i].st = "raised"
          /\ tasks[i].exc = EXHAUSTED_MSG(i)
          /\ reply = tasks[i].exc
          /\ tasks[i].slept = 3
          /\ \A j \in Parts \ {i} : tasks[j].ack

\* The backoff the claim states after the n-th failed attempt.
C4_Delay(n) == CASE n = 1 -> 1 [] n = 2 -> 2 [] n = 3 -> 4 [] OTHER -> 0

\* C4: upload_file_part is called at most 3 times for an index; a failed
\* attempt is followed by a backoff of 1, 2, then 4 seconds, and the next
\* attempt is made only out of that backoff; an acknowledged chunk is not
\* attempted again.
C4_AtMostThreeAttempts ==
    /\ [](\A i \in Parts :
            /\ tasks[i].calls <= 3
            /\ Cardinality(tasks[i].req) <= 3
            /\ tasks[i].st = "sleeping" =>
                  /\ tasks[i].slept = tasks[i].calls
                  /\ tasks[i].delay = C4_Delay(tasks[i].calls))
    /\ [][\A i \in Holding :
            tasks'[i].calls # tasks[i].calls =>
                  /\ tasks'[i].calls = tasks[i].calls + 1
                  /\ tasks[i].st = "sleeping"
                  /\ tasks[i].calls < 3]_vars
    /\ [][\A i \in Acked : tasks'[i] = tasks[i]]_vars

\* C4 witness: a chunk is in its third backoff, of 4 seconds, after a generic
\* transport failure.
C4_Witness ==
    \E i \in Parts :
        /\ tasks[i].st = "sleeping"
        /\ tasks[i].calls = 3
        /\ tasks[i].delay = 4
        /\ tasks[i].last = "Timed out"

\* Every chunk is acknowledged, one of them on its third attempt.
C5_AckedOnThird ==
    /\ pc # "start"
    /\ total_parts > 1
    /\ \A i \in Indices : i \in Parts /\ tasks[i].ack
    /\ \E i \in Parts : tasks[i].calls = 3 /\ tasks[i].slept = 2

\* C5: every attempt of a chunk sends the same request: the file identifier
\* and totalParts of the plan, the chunk's index and the bytes read for it at
\* index * partSize; and once every chunk is acknowledged, one of them on its
\* third attempt, the reference is built and the upload returns True.
C5_RetryIdempotent ==
    /\ [](\A i \in Parts :
            /\ Cardinality(tasks[i].req) <= 1
            /\ \A r \in tasks[i].req :
                  /\ r.file_id = file_id
                  /\ r.file_part = i
                  /\ r.file_total_parts = total_parts
                  /\ r.file_total_parts = (file_size + 524287) \div 524288
                  /\ r.bytes = tasks[i].data
                  /\ r.bytes.off = i * 524288
                  /\ r.bytes.len = IF file_size - i * 524288 < 524288
                                   THEN file_size - i * 524288
                                   ELSE 524288)
    /\ (C5_AckedOnThird ~>
            (pc = "done" /\ ret = "True" /\ input_file # NoInputFile
             /\ input_file.parts = total_parts))

\* C5 witness: a chunk acknowledged on its third attempt, after two transport
\* failures and backoffs, in an upload that returned True.
C5_Witness ==
    /\ C5_AckedOnThird
    /\ pc = "done"
    /\ ret = "True"
    /\ \E i \in Parts :
          /\ tasks[i].calls = 3
          /\ tasks[i].log = "Timed out"
          /\ Cardinality(tasks[i].req) = 1

\* C6: a chunk in backoff does not keep a pending chunk out: with a task in
\* backoff, a chunk pending and fewer than 4 network calls outstanding, the
\* admission gate has a free slot.
C6_BackoffDoesNotBlock ==
    ( /\ \E i \in Parts : tasks[i].st = "sleeping"
      /\ queue # <<>>
      /\ Cardinality(Outstanding) < 4 )
    => (sem > 0 \/ granted > 0)

\* The part was answered with a rate-limit response.
C7_RateLimited(t) == t.last = "FLOOD_PREMIUM_WAIT_30"

\* C7: a rate-limit response ends the chunk's task at once, with no backoff
\* and no further attempt; when it is the first exception of the upload, the
\* upload fails with the rate-limit message, which is not the message of the
\* exhausted retries.
C7_RateLimitDedicated ==
    /\ [](\A i \in Parts :
            C7_RateLimited(tasks[i]) =>
                /\ tasks[i].st = "raised"
                /\ tasks[i].exc = "Limite de upload atingido para conta regular"
                /\ tasks[i].slept = tasks[i].calls - 1)
    /\ [][\A i \in Parts : C7_RateLimited(tasks[i]) => tasks'[i] = tasks[i]]_vars
    /\ [][ ( /\ \A j \in Parts : tasks[j].st # "raised"
             /\ \E i \in Parts : C7_RateLimited(tasks'[i]) )
           => gather_exc' = "Limite de upload atingido para conta regular" ]_vars
    /\ [][gather_exc # None => gather_exc' = gather_exc]_vars
    /\ [](gather_exc = "Limite de upload atingido para conta regular" =>
            /\ reply \in {None, "Limite de upload atingido para conta regular"}
            /\ \A i \in Parts : reply # EXHAUSTED_MSG(i)
            /\ pc # "sending_media"
            /\ pc = "done" =>
                  /\ ret = "False"
                  /\ reply = "Limite de upload atingido para conta regular")

\* C7 witness: the upload returned False with the rate-limit message after a
\* chunk was rate-limited on a retry.
C7_Witness ==
    /\ pc = "done"
    /\ ret = "False"
    /\ reply = RATE_LIMIT_MSG
    /\ \E i \in Parts : C7_RateLimited(tasks[i]) /\ tasks[i].calls = 2

\* The plan has more parts than the tier allows.
OverLimit ==
    /\ pc # "start"
    /\ total_parts > (IF is_premium THEN 4000 ELSE 2000)

\* C8: with totalParts over the tier's limit no part-upload network call is
\* made for any index, no chunk is acknowledged, no file reference is built
\* and the upload does not return True.
C8_OverLimitNoNetwork ==
    OverLimit =>
        /\ \A i \in Parts :
              /\ tasks[i].req = {}
              /\ tasks[i].st # "sending"
              /\ ~tasks[i].ack
        /\ input_file = NoInputFile
        /\ media_sent = 0
        /\ pc \in {"gather", "replying", "done"}
        /\ pc = "done" => ret = "False"

\* C8 witness: an upload of 2001 parts has returned False.
C8_Witness ==
    /\ OverLimit
    /\ total_parts = 2001
    /\ pc = "done"
    /\ ret = "False"
    /\ reply = "Falha no upload da parte 0"
    /\ tasks[0].exc = reply

\* C9: with totalParts over the tier's limit no chunk is read from the file
\* and no chunk task passes the concurrency gate.
C9_LimitCheckedEagerly ==
    OverLimit =>
        /\ sem = 4
        /\ granted = 0
        /\ Len(queue) = total_parts
        /\ \A i \in Parts : tasks[i].data = NoData

\* The messages of the three checks of upload_file_part.
ValidationMessages ==
    {"Limite de partes excedido para o tipo de conta",
     "Tamanho da parte excedeu 512KB",
     "Parte do arquivo vazia"}

\* C10: a chunk that fails a check of upload_file_part gets one attempt and no
\* backoff, and the check's own message is the reason of the upload's failure.
C10_ValidationFatal ==
    \A i \in Parts :
        tasks[i].log \in ValidationMessages =>
            /\ tasks[i].calls = 1
            /\ tasks[i].slept = 0
            /\ reply \in {None, tasks[i].log}

\* C11: for a file of n > 0 bytes total_parts is the least number of parts of
\* 524288 bytes that cover n, that is ceil(n / partSize); and in a plan of one
\* part no part-upload network call is made on any attempt: the chunk is
\* acknowledged by its first call of upload_file_part.
C11_CeilAndSinglePartLocal ==
    (pc # "start" /\ file_size > 0) =>
        /\ total_parts * 524288 >= file_size
        /\ (total_parts - 1) * 524288 < file_size
        /\ total_parts = 1 =>
              \A i \in Parts :
                  /\ tasks[i].req = {}
                  /\ tasks[i].st \notin {"sending", "sleeping"}
                  /\ tasks[i].last = ""
                  /\ tasks[i].calls <= 1
                  /\ tasks[i].calls = 1 => tasks[i].ack

\* C11 witness: the upload of a file of exactly one part returned True with
\* no request sent.
C11_Witness ==
    /\ file_size = 524288
    /\ total_parts = 1
    /\ pc = "done"
    /\ ret = "True"
    /\ tasks[0].ack
    /\ tasks[0].calls = 1
    /\ tasks[0].req = {}

RECURSIVE C12_Read(_)
\* The number of bytes the tasks of parts 0..k-1 read.
C12_Read(k) == IF k = 0 THEN 0 ELSE tasks[k - 1].data.len + C12_Read(k - 1)

\* C12: the chunk read for index i starts at offset i * partSize and has
\* more than 0 and at most partSize bytes, exactly partSize bytes unless it
\* is the last one; and the chunks of a file of n > 0 bytes add up to n once
\* every index has been read.
C12_ChunkLengths ==
    (pc # "start" /\ file_size > 0) =>
        /\ \A i \in Parts :
              tasks[i].data # NoData =>
                  /\ tasks[i].data.off = i * 524288
                  /\ tasks[i].data.len > 0
                  /\ tasks[i].data.len <= 524288
                  /\ i # total_parts - 1 => tasks[i].data.len = 524288
        /\ (queue = <<>> /\ \A i \in Parts : tasks[i].data # NoData) =>
              C12_Read(total_parts) = file_size

\* C12 witness: every chunk of a 5-part file whose last part has one byte was
\* read, and the 5 lengths add up to the size of the file.
C12_Witness ==
    /\ total_parts = 5
    /\ file_size = 4 * 524288 + 1
    /\ queue = <<>>
    /\ \A i \in Parts : tasks[i].data # NoData
    /\ tasks[4].data.len = 1
    /\ tasks[3].data.len = 524288
    /\ C12_Read(5) = file_size

\* C13: the big-file protocol is chosen exactly when total_parts * partSize
\* is over bigFileThreshold, and the choice is one for the whole upload: every
\* part is sent with upload.saveBigFilePart if and only if the reference is an
\* InputFileBig, and the reference carries a checksum if and only if it is an
\* InputFile; the method of the parts and the variant of the reference never
\* disagree.
C13_OneProtocolChoice ==
    /\ \A i \in Parts : \A r \in tasks[i].req :
          /\ r.method \in {"upload.saveBigFilePart", "upload.saveFilePart"}
          /\ (r.method = "upload.saveBigFilePart")
                = (total_parts * 524288 > 10485760)
    /\ input_file # NoInputFile =>
          /\ input_file.tag \in {"InputFileBig", "InputFile"}
          /\ (input_file.tag = "InputFileBig")
                = (total_parts * 524288 > 10485760)
          /\ (input_file.md5_checksum # None) = (input_file.tag = "InputFile")
          /\ \A i \in Parts : \A r \in tasks[i].req :
                (r.method = "upload.saveBigFilePart")
                    = (input_file.tag = "InputFileBig")

\* C13 witness: a file of one byte over the threshold, 21 parts, was uploaded
\* with upload.saveBigFilePart and its reference is an InputFileBig without a
\* checksum.
C13_Witness ==
    /\ file_size = 10485761
    /\ total_parts = 21
    /\ pc = "done"
    /\ ret = "True"
    /\ input_file.tag = "InputFileBig"
    /\ input_file.md5_checksum = None
    /\ \A i \in Parts :
          tasks[i].req # {} /\ \A r \in tasks[i].req : r.method = "upload.saveBigFilePart"

\* C14: the whole-file checksum is computed only after every chunk index has
\* been acknowledged: it is not computed before or during the part uploads,
\* and not for an upload that fails.
C14_ChecksumAfterAcks ==
    md5_checksum # None =>
        /\ \A i \in Indices : i \in Parts /\ tasks[i].ack
        /\ ret # "False"

C16_Finished(t) == t.st \in {"done", "raised", "nofile"}

\* C16: admission is by a counting gate of 4 slots, not in batches: the slot
\* of a task that finishes while chunks are pending is free or handed to the
\* pending chunk at the head of the queue, whatever the chunks in flight do;
\* with chunks pending and no task in backoff, 4 calls are outstanding or a
\* slot is there for the next pending chunk; and with no chunk pending every
\* unfinished chunk holds a slot.
C16_CountingGate ==
    /\ [](pc \notin {"idle", "start"} =>
            /\ sem >= 0
            /\ granted >= 0
            /\ granted <= Len(queue)
            /\ sem + granted + Cardinality(Holding) = 4
            /\ (queue # <<>> /\ \A i \in Parts : tasks[i].st # "sleeping") =>
                  (Cardinality(Outstanding) = 4 \/ sem > 0 \/ granted > 0)
            /\ queue = <<>> =>
                  /\ Parts = Indices
                  /\ \A i \in Parts : C16_Finished(tasks[i]) \/ i \in Holding)
    /\ [][\A i \in Holding :
            (C16_Finished(tasks'[i]) /\ queue # <<>>) =>
                (sem' > 0 \/ granted' > 0)]_vars
    /\ [][(queue # <<>> /\ queue' # queue) =>
            /\ queue' = Tail(queue)
            /\ sem > 0 \/ granted > 0
            /\ Head(queue) \notin Parts
            /\ Head(queue) \in DOMAIN tasks'
            /\ tasks'[Head(queue)].st # "waiting"]_vars

\* C16 witness: chunk 4 of a 5-part file has its call outstanding, admitted
\* into the slot chunk 1 released, while the calls of chunks 0, 2 and 3 are
\* still outstanding.
C16_Witness ==
    /\ total_parts = 5
    /\ queue = <<>>
    /\ tasks[1].st = "done"
    /\ tasks[0].st = "sending"
    /\ tasks[2].st = "sending"
    /\ tasks[3].st = "sending"
    /\ tasks[4].st = "sending"
    /\ sem = 0
    /\ granted = 0

\* C17: the file stays in place for the whole upload: it is not removed
\* while a chunk task of the upload has not finished, and no chunk task opens
\* it after it was removed.
C17_FileOutlivesTasks ==
    ~file_exists =>
        /\ queue = <<>>
        /\ \A i \in Parts : tasks[i].st \in {"done", "raised"}

\* C18: once upload_large_file has returned False, the error reply sent, no
\* chunk task starts a part-upload network call.
C18_NoCallAfterFailure ==
    [][(pc = "done" /\ ret = "False") =>
          \A i \in Holding :
              /\ Cardinality(tasks'[i].req) = Cardinality(tasks[i].req)
              /\ tasks[i].st = "sleeping" => tasks'[i].st # "sending"]_vars

\* C19: every upload terminates when each awaited call returns and every
\* ready coroutine is run: upload_large_file returns True or False, whatever
\* the acknowledgments, transport failures and rate-limit answers of the
\* parts, and does not stay at the admission gate.
C19_Terminates == <>(pc = "done" /\ ret \in {"True", "False"})

\* C19 witness: the upload of a 5-part file returned False on a rate-limit
\* answer while a chunk was pending and the calls of other chunks were
\* outstanding.
C19_Witness ==
    /\ pc = "done"
    /\ ret = "False"
    /\ total_parts = 5
    /\ queue # <<>>
    /\ Cardinality(Outstanding) = 3

\* C20: on every return path of send_media (the file over MAX_FILE_SIZE, the
\* chunked upload returning True or False, the direct send returning or
\* raising) the file has been removed when send_media returns.
C20_FileRemovedOnReturn == sm.pc = "done" => ~file_exists

====
